---- MODULE Spec2Model ----
(***************************************************************************)
(* A model of the API gateway of src/gateway/main.py: token issuance and   *)
(* verification (create_access_token, verify_token, login), the forwarder  *)
(* (forward_request) with its failure classification, and the protected    *)
(* route handlers; and of the in-memory course store of                    *)
(* src/course-service/data_service.py.                                     *)
(*                                                                         *)
(* Python values are modelled as follows.  A dict is a record, a list a    *)
(* sequence.  The outcome of running a block of code is a record           *)
(* [tag |-> "return", value |-> v] or [tag |-> "raise", exc |-> e], where  *)
(* an exception e is a record [cls, status_code, detail]; a try/except is  *)
(* evaluated clause by clause in source order.  Wall-clock time is counted *)
(* in ticks of 1/TicksPerSec second, so that the truncation of a JWT "exp" *)
(* claim to whole seconds is visible.                                      *)
(***************************************************************************)
EXTENDS Integers, Sequences, FiniteSets, TLC

VARIABLES now, issued, req, globals, courses, next_id, last

vars == <<now, issued, req, globals, courses, next_id, last>>

\* The state of the course service (course-service/data_service.py).
courseService == <<courses, next_id, last>>

(***************************************************************************)
(* Bounds of the model.                                                    *)
(***************************************************************************)
\* Clock resolution: ticks per second.
TicksPerSec == 2
\* The clock is observed during the first and the last Slack ticks around
\* the token lifetime.
Slack == 3
\* Number of successful logins kept in the history.
MaxLogins == 2
\* Number of add_course calls made on the course service.
MaxAdds == 2

(***************************************************************************)
(* Configuration (main.py lines 19-28, 40-51).                             *)
(***************************************************************************)
SECRET_KEY == "your-secret-key-keep-it-secret"
ALGORITHM == "HS256"
ACCESS_TOKEN_EXPIRE_MINUTES == 30

\* list(SERVICES.keys()), in insertion order.
ServiceKeys == <<"student", "course">>

SERVICES ==
  [student |-> "http://localhost:8001", course |-> "http://localhost:8002"]

fake_users_db ==
  [admin |-> [username |-> "admin", password |-> "admin123", role |-> "admin"],
   user  |-> [username |-> "user",  password |-> "user123",  role |-> "user"]]

(***************************************************************************)
(* Python plumbing: outcomes, exceptions and their class hierarchy.        *)
(***************************************************************************)
Nil == [nil |-> TRUE]

Return(v) == [tag |-> "return", value |-> v]

Raise(e) == [tag |-> "raise", exc |-> e]

\* A detail that is a plain string (as opposed to a dict).
Text(s) == [text |-> s]

Exc(cls, msg) == [cls |-> cls, status_code |-> 0, detail |-> Text(msg)]

HTTPException(code, detail) ==
  [cls |-> "HTTPException", status_code |-> code, detail |-> detail]

\* The proper ancestors of each exception class that the gateway can meet
\* (PyJWT, httpx, json, fastapi and the builtins).
Bases(cls) ==
  CASE cls = "ExpiredSignatureError" ->
         {"InvalidTokenError", "PyJWTError", "Exception"}
    [] cls \in {"InvalidSignatureError", "DecodeError"} ->
         {"DecodeError", "InvalidTokenError", "PyJWTError", "Exception"} \ {cls}
    [] cls \in {"ConnectTimeout", "ReadTimeout", "WriteTimeout", "PoolTimeout"} ->
         {"TimeoutException", "TransportError", "RequestError", "HTTPError",
          "Exception"}
    [] cls \in {"ConnectError", "ReadError"} ->
         {"NetworkError", "TransportError", "RequestError", "HTTPError",
          "Exception"}
    [] cls = "RemoteProtocolError" ->
         {"ProtocolError", "TransportError", "RequestError", "HTTPError",
          "Exception"}
    [] cls = "JSONDecodeError" -> {"ValueError", "Exception"}
    [] cls \in {"HTTPException", "AttributeError"} -> {"Exception"}
    [] OTHER -> {}

IsInstance(e, cls) == e.cls = cls \/ cls \in Bases(e.cls)

\* The names that `import jwt' (main.py line 8, PyJWT) binds and that the
\* gateway refers to.  PyJWT's base exception is PyJWTError; the module has
\* no attribute JWTError.
JwtModuleAttrs ==
  {"encode", "decode", "ExpiredSignatureError", "InvalidSignatureError",
   "DecodeError", "InvalidTokenError", "PyJWTError"}

(***************************************************************************)
(* Time.                                                                   *)
(***************************************************************************)
\* timedelta(minutes=ACCESS_TOKEN_EXPIRE_MINUTES), in ticks.
TTLTicks == ACCESS_TOKEN_EXPIRE_MINUTES * 60 * TicksPerSec

\* The instants at which the clock is observed.
ClockValues == (0 .. Slack) \cup ((TTLTicks - Slack) .. (TTLTicks + Slack + 1))

(***************************************************************************)
(* JSON web tokens.  A well-formed token is [payload, sig]; the HMAC is an *)
(* injective function of the key and the payload.                          *)
(***************************************************************************)
Sign(key, payload) == [key |-> key, payload |-> payload]

WellFormed(token) == DOMAIN token = {"payload", "sig"}

\* jwt.encode(to_encode, key, algorithm): a datetime "exp" is converted to
\* whole seconds since the epoch (timegm of the time tuple), which drops the
\* sub-second part.
jwt_encode(to_encode, key) ==
  LET payload == [k \in DOMAIN to_encode |->
                    IF k = "exp" THEN to_encode[k] \div TicksPerSec
                    ELSE to_encode[k]]
  IN  [payload |-> payload, sig |-> Sign(key, payload)]

\* Mutant of jwt_decode: the expiry is not verified.
jwt_decode_noexp(token, key, t) ==
  IF ~WellFormed(token) THEN Raise(Exc("DecodeError", "Not enough segments"))
  ELSE IF token.sig # Sign(key, token.payload)
    THEN Raise(Exc("InvalidSignatureError", "Signature verification failed"))
  ELSE Return(token.payload)

\* jwt.decode(token, key, algorithms): the structure, then the signature,
\* then the registered claims; "exp" is compared with the current time.
jwt_decode(token, key, t) ==
  IF ~WellFormed(token) THEN Raise(Exc("DecodeError", "Not enough segments"))
  ELSE IF token.sig # Sign(key, token.payload)
    THEN Raise(Exc("InvalidSignatureError", "Signature verification failed"))
  ELSE IF "exp" \in DOMAIN token.payload
          /\ token.payload.exp * TicksPerSec <= t
    THEN Raise(Exc("ExpiredSignatureError", "Signature has expired"))
  ELSE Return(token.payload)

\* Mutant of create_access_token: the lifetime is taken in seconds.
create_access_token_seconds(data, t) ==
  LET expire == t + ACCESS_TOKEN_EXPIRE_MINUTES * TicksPerSec
      to_encode == [k \in DOMAIN data \cup {"exp"} |->
                      IF k = "exp" THEN expire ELSE data[k]]
  IN  jwt_encode(to_encode, SECRET_KEY)

\* create_access_token(data) called at time t (main.py lines 54-60).
create_access_token(data, t) ==
  LET expire == t + TTLTicks
      to_encode == [k \in DOMAIN data \cup {"exp"} |->
                      IF k = "exp" THEN expire ELSE data[k]]
  IN  jwt_encode(to_encode, SECRET_KEY)

\* The try block of verify_token (main.py lines 65-73).
verify_token_try(token, t) ==
  LET decoded == jwt_decode(token, SECRET_KEY, t)
  IN  IF decoded.tag = "raise" THEN decoded
      ELSE IF "sub" \notin DOMAIN decoded.value
        THEN Raise(HTTPException(401, Text("Invalid authentication credentials")))
      ELSE Return(decoded.value)

\* verify_token(credentials) called at time t (main.py lines 62-83).  The
\* except clauses are tried in order; evaluating the expression of the
\* second clause, jwt.JWTError, is itself an attribute lookup.
verify_token(token, t) ==
  LET body == verify_token_try(token, t)
  IN  IF body.tag = "return" THEN body
      ELSE IF IsInstance(body.exc, "ExpiredSignatureError")
        THEN Raise(HTTPException(401, Text("Token has expired")))
      ELSE IF "JWTError" \notin JwtModuleAttrs
        THEN Raise(Exc("AttributeError", "module 'jwt' has no attribute 'JWTError'"))
      ELSE IF IsInstance(body.exc, "JWTError")
        THEN Raise(HTTPException(401, Text("Could not validate credentials")))
      ELSE body

\* Mutant of login: the password is not compared.
login_nopassword(login_data, t) ==
  IF login_data.username \notin DOMAIN fake_users_db
  THEN Raise(HTTPException(401,
               [error |-> "Authentication Failed",
                message |-> "Incorrect username or password"]))
  ELSE LET user == fake_users_db[login_data.username]
       IN  Return([access_token |->
                     create_access_token(
                       [sub |-> user.username, role |-> user.role], t),
                   token_type |-> "bearer"])

\* login(login_data) called at time t (main.py lines 192-210).
login(login_data, t) ==
  LET known == login_data.username \in DOMAIN fake_users_db
      user == fake_users_db[login_data.username]
  IN  IF ~known \/ user.password # login_data.password
      THEN Raise(HTTPException(401,
                   [error |-> "Authentication Failed",
                    message |-> "Incorrect username or password"]))
      ELSE Return([access_token |->
                     create_access_token(
                       [sub |-> user.username, role |-> user.role], t),
                   token_type |-> "bearer"])

(***************************************************************************)
(* JSON bodies.  A parsed JSON value (and a Python value that is rendered  *)
(* as JSON) is [json |-> c], c its compact rendering; parsing a text       *)
(* yields the value, rendering a value yields the compact text.            *)
(***************************************************************************)
PyNone == [json |-> "null"]

\* Response texts a backend may send: empty, JSON (compact or spaced), and
\* texts that are not JSON.
BackendTexts ==
  {"", "[]", "{\"id\": 1}", "{\"id\":1}", "null", "Not Found", " "}

\* json.loads(text)
json_loads(text) ==
  CASE text = "[]" -> Return([json |-> "[]"])
    [] text \in {"{\"id\": 1}", "{\"id\":1}"} -> Return([json |-> "{\"id\":1}"])
    [] text = "null" -> Return(PyNone)
    [] OTHER -> Raise(Exc("JSONDecodeError", "Expecting value"))

\* JSONResponse(content=..., status_code=...): the content is rendered when
\* the response is built.
JSONResponse(content, code) ==
  [cls |-> "JSONResponse", status_code |-> code, content |-> content]

\* str(e)
PyStr(e) == IF e.cls = "HTTPException" THEN Text("HTTPException") ELSE e.detail

(***************************************************************************)
(* forward_request(service, path, method, **kwargs), main.py lines 102-189.*)
(* A call is [service, path, method, json]; json is Nil when the caller    *)
(* passes no keyword argument.                                             *)
(***************************************************************************)
HTTP_TIMEOUT == 30

SupportedMethods == {"GET", "POST", "PUT", "DELETE"}

\* Mutant of forward_except: the catch-all clause comes first.
forward_except_catchall(call, e) ==
  IF IsInstance(e, "Exception")
    THEN Raise(HTTPException(500,
           [error |-> "Internal Server Error",
            message |-> "An unexpected error occurred while processing your request",
            details |-> PyStr(e)]))
  ELSE Raise(e)

\* The except clauses of forward_request, in source order (lines 159-189).
forward_except(call, e) ==
  IF IsInstance(e, "TimeoutException")
    THEN Raise(HTTPException(504,
           [error |-> "Gateway Timeout",
            message |-> "The service '" \o call.service
                          \o "' took too long to respond",
            service |-> call.service]))
  ELSE IF IsInstance(e, "ConnectError")
    THEN Raise(HTTPException(503,
           [error |-> "Service Unavailable",
            message |-> "Unable to connect to '" \o call.service
                          \o "' service. Please ensure the service is running.",
            service |-> call.service,
            service_url |-> SERVICES[call.service]]))
  ELSE IF IsInstance(e, "Exception")
    THEN Raise(HTTPException(500,
           [error |-> "Internal Server Error",
            message |-> "An unexpected error occurred while processing your request",
            details |-> PyStr(e)]))
  ELSE Raise(e)

\* The HTTP call client.get/post/put/delete(url, **kwargs) of lines 120-127.
HttpCall(call) ==
  [method |-> call.method, url |-> SERVICES[call.service] \o call.path,
   json |-> call.json, timeout |-> HTTP_TIMEOUT]

\* Mutant of forward_begin: the method is checked before the registry.
forward_begin_methodfirst(call) ==
  IF call.method \notin SupportedMethods
    THEN [await |-> FALSE,
          out |-> Raise(HTTPException(405,
                    [error |-> "Method Not Allowed",
                     message |-> "HTTP method '" \o call.method
                                   \o "' is not supported",
                     allowed_methods |-> <<"GET", "POST", "PUT", "DELETE">>]))]
  ELSE IF call.service \notin DOMAIN SERVICES
    THEN [await |-> FALSE,
          out |-> Raise(HTTPException(404,
                    [error |-> "Service Not Found",
                     message |-> "The requested service '" \o call.service
                                   \o "' is not available",
                     available_services |-> ServiceKeys]))]
  ELSE [await |-> TRUE, http |-> HttpCall(call)]

\* forward_request up to its first await (lines 104-137): the outcome if it
\* ends there, or the HTTP call it issues and waits for.
forward_begin(call) ==
  IF call.service \notin DOMAIN SERVICES
    THEN [await |-> FALSE,
          out |-> Raise(HTTPException(404,
                    [error |-> "Service Not Found",
                     message |-> "The requested service '" \o call.service
                                   \o "' is not available",
                     available_services |-> ServiceKeys]))]
  ELSE IF call.method \in SupportedMethods
    THEN [await |-> TRUE, http |-> HttpCall(call)]
  ELSE [await |-> FALSE,
        out |-> forward_except(call,
                  HTTPException(405,
                    [error |-> "Method Not Allowed",
                     message |-> "HTTP method '" \o call.method
                                   \o "' is not supported",
                     allowed_methods |-> <<"GET", "POST", "PUT", "DELETE">>]))]

\* Mutant of forward_resume: every error of the backend is reported as 502.
forward_resume_remap(call, ended) ==
  IF ended.tag = "raise" THEN forward_except(call, ended.exc)
  ELSE LET response == ended.value IN
    IF response.status_code >= 400
      THEN Return(JSONResponse(
             [error |-> "Service Error",
              status_code |-> response.status_code,
              service |-> call.service,
              message |-> response.text],
             502))
    ELSE LET content == IF response.text # "" THEN json_loads(response.text)
                        ELSE Return(PyNone)
         IN  IF content.tag = "raise" THEN forward_except(call, content.exc)
             ELSE Return(JSONResponse(content.value, response.status_code))

\* Mutant of forward_resume: response.json() is called on an empty body too.
forward_resume_alwaysjson(call, ended) ==
  IF ended.tag = "raise" THEN forward_except(call, ended.exc)
  ELSE LET response == ended.value IN
    IF response.status_code >= 400
      THEN Return(JSONResponse(
             [error |-> "Service Error",
              status_code |-> response.status_code,
              service |-> call.service,
              message |-> response.text],
             response.status_code))
    ELSE LET content == json_loads(response.text)
         IN  IF content.tag = "raise" THEN forward_except(call, content.exc)
             ELSE Return(JSONResponse(content.value, response.status_code))

\* forward_request once the HTTP call has ended (lines 139-189): with a
\* response [status_code, text] or with an exception of the transport.
forward_resume(call, ended) ==
  IF ended.tag = "raise" THEN forward_except(call, ended.exc)
  ELSE LET response == ended.value IN
    IF response.status_code >= 400
      THEN Return(JSONResponse(
             [error |-> "Service Error",
              status_code |-> response.status_code,
              service |-> call.service,
              message |-> response.text],
             response.status_code))
    ELSE LET content == IF response.text # "" THEN json_loads(response.text)
                        ELSE Return(PyNone)
         IN  IF content.tag = "raise" THEN forward_except(call, content.exc)
             ELSE Return(JSONResponse(content.value, response.status_code))

(***************************************************************************)
(* The framework's part: what a handler's outcome becomes on the wire.     *)
(***************************************************************************)
\* A returned response is sent as it is, a returned dict as 200 JSON, an
\* HTTPException as its status with {"detail": detail}, and any other
\* exception as a bare 500.
ToResponse(out) ==
  IF out.tag = "return"
    THEN IF "cls" \in DOMAIN out.value
           THEN [status_code |-> out.value.status_code, body |-> out.value.content]
           ELSE [status_code |-> 200, body |-> out.value]
  ELSE IF out.exc.cls = "HTTPException"
    THEN [status_code |-> out.exc.status_code, body |-> [detail |-> out.exc.detail]]
  ELSE [status_code |-> 500, body |-> Text("Internal Server Error")]

\* HTTPBearer() with auto_error (main.py line 23) rejects a request that has
\* no Authorization header, or one of another scheme, before verify_token
\* runs.  The status it uses is 403 or 401, depending on the FastAPI release.
HTTPBearerRejectStatus == {403, 401}

HasBearer(auth) == "scheme" \in DOMAIN auth /\ auth.scheme = "Bearer"

(***************************************************************************)
(* The route table (main.py lines 227-287): one row per protected handler. *)
(***************************************************************************)
Route(name, method, service, backend, hasId, hasBody) ==
  [name |-> name, method |-> method, service |-> service, backend |-> backend,
   hasId |-> hasId, hasBody |-> hasBody]

Routes ==
  {Route("get_all_students", "GET",    "student", "/api/students", FALSE, FALSE),
   Route("get_student",      "GET",    "student", "/api/students", TRUE,  FALSE),
   Route("create_student",   "POST",   "student", "/api/students", FALSE, TRUE),
   Route("update_student",   "PUT",    "student", "/api/students", TRUE,  TRUE),
   Route("delete_student",   "DELETE", "student", "/api/students", TRUE,  FALSE),
   Route("get_all_courses",  "GET",    "course",  "/api/courses",  FALSE, FALSE),
   Route("get_course",       "GET",    "course",  "/api/courses",  TRUE,  FALSE),
   Route("create_course",    "POST",   "course",  "/api/courses",  FALSE, TRUE),
   Route("update_course",    "PUT",    "course",  "/api/courses",  TRUE,  TRUE),
   Route("delete_course",    "DELETE", "course",  "/api/courses",  TRUE,  FALSE)}

RouteOf(name) == CHOOSE rt \in Routes : rt.name = name

\* Mutant of RouteCall: the handlers of the routes with an id forward to
\* the collection path.
RouteCall_noid(inb) ==
  LET rt == RouteOf(inb.route)
  IN  [service |-> rt.service,
       path |-> rt.backend,
       method |-> rt.method,
       json |-> IF rt.hasBody THEN inb.body ELSE Nil]

\* The forward_request call a handler makes for the inbound request inb.
RouteCall(inb) ==
  LET rt == RouteOf(inb.route)
  IN  [service |-> rt.service,
       path |-> IF rt.hasId THEN rt.backend \o "/" \o ToString(inb.id)
                ELSE rt.backend,
       method |-> rt.method,
       json |-> IF rt.hasBody THEN inb.body ELSE Nil]

(***************************************************************************)
(* The inputs of the model.                                                *)
(***************************************************************************)
Reqs == {"r1", "r2"}

Usernames == {"admin", "user", "guest"}

Passwords == {"admin123", "user123", "letmein"}

PathIds == {1, 999}

Bodies == {[json |-> "{\"name\":\"A\"}"]}

\* What a client can do to a token it holds without the key: change a claim
\* and keep the signature.
Tamper(token) ==
  {[token EXCEPT !.payload.role = "admin"],
   [token EXCEPT !.payload.exp = @ + ACCESS_TOKEN_EXPIRE_MINUTES * 60]}

\* Tokens made without a login: not a JWT at all, signed with another key,
\* and signed with the gateway's key (which the source publishes) but
\* without the "sub" claim.
CraftedTokens ==
  LET nosub == [role |-> "admin", exp |-> 2 * ACCESS_TOKEN_EXPIRE_MINUTES * 60]
      full == [sub |-> "admin", role |-> "admin",
               exp |-> 2 * ACCESS_TOKEN_EXPIRE_MINUTES * 60]
      old == [role |-> "admin", exp |-> 1]
  IN  {[raw |-> "not-a-jwt"],
       [payload |-> full, sig |-> Sign("another-key", full)],
       [payload |-> nosub, sig |-> Sign(SECRET_KEY, nosub)],
       [payload |-> old, sig |-> Sign(SECRET_KEY, old)]}

IssuedTokens == {l.token : l \in issued}

PresentableTokens ==
  IssuedTokens \cup UNION {Tamper(tk) : tk \in IssuedTokens} \cup CraftedTokens

Bearer(token) == [scheme |-> "Bearer", credentials |-> token]

\* How an HTTP call to a backend can end.
BackendStatuses == {200, 201, 204, 302, 399, 400, 404, 422, 500, 503}

HttpEndings ==
  {Return([status_code |-> sc, text |-> tx]) :
     sc \in BackendStatuses, tx \in BackendTexts}
  \cup {Raise(Exc(c, "")) :
          c \in {"ConnectTimeout", "ReadTimeout", "WriteTimeout", "PoolTimeout",
                 "ConnectError", "ReadError", "RemoteProtocolError"}}

\* forward_request calls as a caller other than the ten handlers may make.
ForwardCalls ==
  [service : {"student", "course", "teacher", ""},
   path : {"/api/courses", "/api/courses/999"},
   method : SupportedMethods \cup {"PATCH", "HEAD", "get"},
   json : {Nil} \cup Bodies]

(***************************************************************************)
(* State.  now is the wall clock; issued is the history of successful      *)
(* logins; req[r] is the request (or the direct call) that slot r is       *)
(* handling.                                                               *)
(***************************************************************************)
IdleReq ==
  [pc |-> "idle", inb |-> Nil, at |-> 0, verdict |-> Nil, call |-> Nil,
   http |-> <<>>, ended |-> Nil, out |-> Nil, resp |-> Nil]

\* The module-level objects of main.py that request handling reads: they
\* are bound once, when the module is loaded.
StartupGlobals ==
  [SECRET_KEY |-> SECRET_KEY, ALGORITHM |-> ALGORITHM,
   ACCESS_TOKEN_EXPIRE_MINUTES |-> ACCESS_TOKEN_EXPIRE_MINUTES,
   SERVICES |-> SERVICES, fake_users_db |-> fake_users_db]

\* Course(id, name, code, credits, instructor), models.py lines 4-9.
Course(id, name, code, credits, instructor) ==
  [id |-> id, name |-> name, code |-> code, credits |-> credits,
   instructor |-> instructor]

\* CourseMockDataService.__init__ (data_service.py lines 4-10).
InitialCourses ==
  <<Course(1, "Introduction to Programming", "CS101", 3, "Dr. Smith"),
    Course(2, "Data Structures", "CS201", 4, "Dr. Johnson"),
    Course(3, "Database Systems", "CS301", 3, "Dr. Williams")>>

InitialNextId == 4

\* No call of the course service has been made yet.
NoCall ==
  [op |-> "none", id |-> 0, data |-> Nil, result |-> Nil,
   courses |-> InitialCourses, next_id |-> InitialNextId, freed |-> {}]

Init ==
  /\ now = 0
  /\ issued = {}
  /\ req = [r \in Reqs |-> IdleReq]
  /\ globals = StartupGlobals
  /\ courses = InitialCourses
  /\ next_id = InitialNextId
  /\ last = NoCall

\* Time passes.
Tick ==
  /\ \E t \in ClockValues : t > now /\ now' = t
  /\ UNCHANGED <<issued, req, globals, courseService>>

\* Mutant of LoginRequest: a failed login of a known user is recorded in
\* the user table.
LoginRequest_lockout(r, username, password) ==
  LET login_data == [username |-> username, password |-> password]
      out == login(login_data, now)
      entry == [token |-> out.value.access_token, username |-> username,
                at |-> now]
  IN  /\ req[r].pc = "idle"
      /\ out.tag = "return" => Cardinality(issued \cup {entry}) <= MaxLogins
      /\ issued' = IF out.tag = "return" THEN issued \cup {entry} ELSE issued
      /\ req' = [req EXCEPT ![r] =
                   [IdleReq EXCEPT !.pc = "done",
                      !.inb = [route |-> "login", id |-> 0, body |-> login_data,
                               auth |-> Nil],
                      !.at = now, !.out = out, !.resp = ToResponse(out)]]
      /\ globals' = IF out.tag = "raise" /\ username \in DOMAIN fake_users_db
                    THEN [globals EXCEPT
                            !.fake_users_db[username].role = "locked"]
                    ELSE globals
      /\ UNCHANGED <<now, courseService>>

\* POST /auth/login: log_requests and login run without a suspension.
LoginRequest(r, username, password) ==
  LET login_data == [username |-> username, password |-> password]
      out == login(login_data, now)
      entry == [token |-> out.value.access_token, username |-> username,
                at |-> now]
  IN  /\ req[r].pc = "idle"
      /\ out.tag = "return" => Cardinality(issued \cup {entry}) <= MaxLogins
      /\ issued' = IF out.tag = "return" THEN issued \cup {entry} ELSE issued
      /\ req' = [req EXCEPT ![r] =
                   [IdleReq EXCEPT !.pc = "done",
                      !.inb = [route |-> "login", id |-> 0, body |-> login_data,
                               auth |-> Nil],
                      !.at = now, !.out = out, !.resp = ToResponse(out)]]
      /\ UNCHANGED <<now, globals, courseService>>

\* The dependencies of a protected route: HTTPBearer, then verify_token.
Authenticate(inb, t) ==
  IF ~HasBearer(inb.auth) THEN Nil ELSE verify_token(inb.auth.credentials, t)

\* Mutant of Receive: the route does not depend on verify_token.
Receive_nodepends(r, inb) ==
  /\ req[r].pc = "idle"
  /\ req' = [req EXCEPT ![r] =
               [IdleReq EXCEPT !.inb = inb, !.at = now, !.pc = "handler"]]
  /\ UNCHANGED <<now, issued, globals, courseService>>

\* Mutant of Receive: a verified token is also required to carry the
\* admin role.
Receive_adminonly(r, inb) ==
  LET verified == Authenticate(inb, now)
      verdict == IF verified # Nil /\ verified.tag = "return"
                    /\ verified.value.role # "admin"
                 THEN Raise(HTTPException(403, Text("Forbidden")))
                 ELSE verified
  IN  /\ req[r].pc = "idle"
      /\ \E st \in HTTPBearerRejectStatus :
           req' = [req EXCEPT ![r] =
             [IdleReq EXCEPT !.inb = inb, !.at = now, !.verdict = verdict,
                !.pc = IF verdict # Nil /\ verdict.tag = "return"
                       THEN "handler" ELSE "done",
                !.resp = IF verdict = Nil
                           THEN [status_code |-> st,
                                 body |-> [detail |-> Text("Not authenticated")]]
                         ELSE IF verdict.tag = "raise" THEN ToResponse(verdict)
                         ELSE Nil]]
      /\ UNCHANGED <<now, issued, globals, courseService>>

\* A request for a protected route arrives: log_requests, then the route's
\* dependencies.  The handler runs only if they return.
Receive(r, inb) ==
  LET verdict == Authenticate(inb, now)
  IN  /\ req[r].pc = "idle"
      /\ \E st \in HTTPBearerRejectStatus :
           req' = [req EXCEPT ![r] =
             [IdleReq EXCEPT !.inb = inb, !.at = now, !.verdict = verdict,
                !.pc = IF verdict # Nil /\ verdict.tag = "return"
                       THEN "handler" ELSE "done",
                !.resp = IF verdict = Nil
                           THEN [status_code |-> st,
                                 body |-> [detail |-> Text("Not authenticated")]]
                         ELSE IF verdict.tag = "raise" THEN ToResponse(verdict)
                         ELSE Nil]]
      /\ UNCHANGED <<now, issued, globals, courseService>>

\* forward_request is entered with `call' and runs to its first await.
EnterForward(r, call) ==
  LET b == forward_begin(call)
  IN  /\ req' = [req EXCEPT ![r] =
                   IF b.await
                   THEN [@ EXCEPT !.pc = "awaiting", !.call = call,
                                  !.http = Append(@, b.http)]
                   ELSE [@ EXCEPT !.pc = "done", !.call = call,
                                  !.out = b.out, !.resp = ToResponse(b.out)]]
      /\ UNCHANGED <<now, issued, globals, courseService>>

\* Mutant of Handler: the backend call blocks the event loop, so a handler
\* starts only when no other request is waiting for its backend.
Handler_blocking(r) ==
  /\ req[r].pc = "handler"
  /\ \A q \in Reqs \ {r} : req[q].pc # "awaiting"
  /\ EnterForward(r, RouteCall(req[r].inb))

\* The handler of a verified request runs: it calls forward_request.
Handler(r) ==
  /\ req[r].pc = "handler"
  /\ EnterForward(r, RouteCall(req[r].inb))

\* Mutant of BackendEnds: a call that ended in an exception is attempted a
\* second time before its ending is classified.
BackendEnds_retry(r, ended) ==
  LET out == forward_resume(req[r].call, ended)
  IN  /\ req[r].pc = "awaiting"
      /\ req' = [req EXCEPT ![r] =
                   IF ended.tag = "raise" /\ Len(@.http) < 2
                   THEN [@ EXCEPT !.http = Append(@, HttpCall(req[r].call))]
                   ELSE [@ EXCEPT !.pc = "done", !.ended = ended, !.out = out,
                                  !.resp = ToResponse(out)]]
      /\ UNCHANGED <<now, issued, globals, courseService>>

\* The HTTP call of slot r ends; forward_request classifies the ending.
BackendEnds(r, ended) ==
  LET out == forward_resume(req[r].call, ended)
  IN  /\ req[r].pc = "awaiting"
      /\ req' = [req EXCEPT ![r] =
                   [@ EXCEPT !.pc = "done", !.ended = ended, !.out = out,
                             !.resp = ToResponse(out)]]
      /\ UNCHANGED <<now, issued, globals, courseService>>

\* log_requests logs the response and returns it; the slot is free again.
Deliver(r) ==
  /\ req[r].pc = "done"
  /\ req' = [req EXCEPT ![r] = IdleReq]
  /\ UNCHANGED <<now, issued, globals, courseService>>

\* Direct calls, as a unit test makes them.
CallForward(r, call) ==
  /\ req[r].pc = "idle"
  /\ EnterForward(r, call)

CallVerify(r, token) ==
  /\ req[r].pc = "idle"
  /\ req' = [req EXCEPT ![r] =
               [IdleReq EXCEPT !.pc = "done", !.at = now,
                  !.inb = [route |-> "verify", id |-> 0, body |-> Nil,
                           auth |-> Bearer(token)],
                  !.verdict = verify_token(token, now)]]
  /\ UNCHANGED <<now, issued, globals, courseService>>

(***************************************************************************)
(* Specifications.                                                         *)
(***************************************************************************)
\* An inbound request for the protected route rt: a path id where the route
\* has one, a JSON body where the handler takes one.
InboundFor(rt, id, body, auth) ==
  [route |-> rt.name, id |-> IF rt.hasId THEN id ELSE 0,
   body |-> IF rt.hasBody THEN body ELSE Nil, auth |-> auth]

\* The gateway's clock is observed before any token can expire and after
\* every early token has.
GatewayInstants == {0, TTLTicks + Slack + 1}

\* The credentials the gateway's clients try.
GatewayLogins ==
  {<<"admin", "admin123">>, <<"user", "user123">>, <<"admin", "letmein">>}

\* The Authorization headers of the gateway's clients: none, the token of a
\* login, and a string that is no JWT.
GatewayAuths ==
  {Nil, Bearer([raw |-> "not-a-jwt"])} \cup {Bearer(tk) : tk \in IssuedTokens}

\* The endings of a backend call that the gateway specification samples.
GatewayEndings ==
  {Return([status_code |-> 200, text |-> "[]"]),
   Return([status_code |-> 404, text |-> "Not Found"]),
   Raise(Exc("ConnectError", ""))}

\* The gateway: requests of two clients at a time, handled concurrently.
Next ==
  \/ Tick /\ now' \in GatewayInstants
  \/ \E r \in Reqs :
       \/ \E c \in GatewayLogins : LoginRequest(r, c[1], c[2])
       \/ \E rt \in Routes, auth \in GatewayAuths :
            Receive(r, InboundFor(rt, 1, CHOOSE b \in Bodies : TRUE, auth))
       \/ Handler(r)
       \/ \E ended \in GatewayEndings : BackendEnds(r, ended)
       \/ Deliver(r)

Spec == Init /\ [][Next]_vars

\* The token component alone: logins and verifications at any instant.
NextAuth ==
  \/ Tick
  \/ \E u \in Usernames, p \in Passwords : LoginRequest("r1", u, p)
  \/ \E tk \in PresentableTokens : CallVerify("r1", tk)
  \/ Deliver("r1")

SpecAuth == Init /\ [][NextAuth]_vars

\* The forwarder alone: any call, any ending of the HTTP call.
NextForward ==
  \/ \E call \in ForwardCalls : CallForward("r1", call)
  \/ \E ended \in HttpEndings : BackendEnds("r1", ended)
  \/ Deliver("r1")

SpecForward == Init /\ [][NextForward]_vars

\* The bodies that clients send to the POST and PUT routes.
RouteBodies == Bodies \cup {[json |-> "{\"name\":\"B\",\"age\":20}"]}

\* The routes alone: one client, every route with every id and body.
NextRoutes ==
  \/ \E c \in GatewayLogins : LoginRequest("r1", c[1], c[2])
  \/ \E rt \in Routes, id \in PathIds, body \in RouteBodies,
        auth \in GatewayAuths :
       Receive("r1", InboundFor(rt, id, body, auth))
  \/ Handler("r1")
  \/ \E ended \in GatewayEndings : BackendEnds("r1", ended)
  \/ Deliver("r1")

SpecRoutes == Init /\ [][NextRoutes]_vars

(***************************************************************************)
(* The course service (data_service.py, models.py).  courses is the list   *)
(* self.courses, next_id the counter self.next_id; last records the call   *)
(* made last: its arguments, its result, the list and the counter it found *)
(* and the ids that delete_course has removed so far.                      *)
(***************************************************************************)
CourseFields == {"name", "code", "credits", "instructor"}

\* CourseCreate objects (models.py lines 11-15).  Two calls may carry the
\* same data.
CourseCreates ==
  {[name |-> "Algorithms", code |-> "CS401", credits |-> 4,
    instructor |-> "Dr. Lee"]}

\* CourseUpdate objects (models.py lines 17-21): the four optional fields
\* and the set of those the caller has set.  A field that was not set holds
\* its default, None, written "None" for the texts and 0 for credits.
CourseUpdates ==
  {[fields_set |-> {}, name |-> "None", code |-> "None", credits |-> 0,
    instructor |-> "None"],
   [fields_set |-> {"name"}, name |-> "Programming I", code |-> "None",
    credits |-> 0, instructor |-> "None"],
   [fields_set |-> {"credits", "instructor"}, name |-> "None",
    code |-> "None", credits |-> 5, instructor |-> "Dr. Brown"]}

\* The ids that callers pass: two of the initial courses, every id that
\* add_course assigns, and one that is never assigned.
CourseIds == {1, 3} \cup (InitialNextId .. (InitialNextId + MaxAdds))

\* Positions of the courses of list cs whose id is course_id.
Matches(cs, course_id) == {i \in 1 .. Len(cs) : cs[i].id = course_id}

Least(S) == CHOOSE i \in S : \A j \in S : i <= j

\* get_course_by_id (lines 15-16): the first course with that id, or None.
get_course_by_id(cs, course_id) ==
  IF Matches(cs, course_id) = {} THEN Nil
  ELSE cs[Least(Matches(cs, course_id))]

\* list.remove(x): the list without its first element equal to x.
ListRemove(cs, x) ==
  LET i == Least({j \in 1 .. Len(cs) : cs[j] = x})
  IN  [j \in 1 .. Len(cs) - 1 |-> IF j < i THEN cs[j] ELSE cs[j + 1]]

\* course_data.dict(exclude_unset=True) followed by setattr per key
\* (lines 27-29).
SetAttrs(course, course_data) ==
  [k \in DOMAIN course |->
     IF k \in course_data.fields_set THEN course_data[k] ELSE course[k]]

\* What the call observed and what delete_course has removed so far.
Called(op, id, data, result) ==
  [op |-> op, id |-> id, data |-> data, result |-> result,
   courses |-> courses, next_id |-> next_id,
   freed |-> IF op = "delete_course" /\ result = TRUE
             THEN last.freed \cup {id} ELSE last.freed]

\* Mutant of add_course: the new id is the length of the list plus one.
add_course_bylength(course_data) ==
  LET new_course == Course(Len(courses) + 1, course_data.name,
                           course_data.code, course_data.credits,
                           course_data.instructor)
  IN  /\ next_id < InitialNextId + MaxAdds
      /\ courses' = Append(courses, new_course)
      /\ next_id' = next_id + 1
      /\ last' = Called("add_course", 0, course_data, new_course)
      /\ UNCHANGED <<now, issued, req, globals>>

\* add_course (lines 18-22).
add_course(course_data) ==
  LET new_course == Course(next_id, course_data.name, course_data.code,
                           course_data.credits, course_data.instructor)
  IN  /\ next_id < InitialNextId + MaxAdds
      /\ courses' = Append(courses, new_course)
      /\ next_id' = next_id + 1
      /\ last' = Called("add_course", 0, course_data, new_course)
      /\ UNCHANGED <<now, issued, req, globals>>

\* Mutant of update_course: every field of the update is written, the
\* unset ones with their default.
update_course_unset(course_id, course_data) ==
  LET course == get_course_by_id(courses, course_id)
      i == Least(Matches(courses, course_id))
      updated == [k \in DOMAIN course |->
                    IF k \in {"name", "code", "instructor"}
                         \/ k \in course_data.fields_set
                    THEN course_data[k] ELSE course[k]]
  IN  /\ IF course # Nil
         THEN /\ courses' = [courses EXCEPT ![i] = updated]
              /\ last' = Called("update_course", course_id, course_data,
                                updated)
         ELSE /\ courses' = courses
              /\ last' = Called("update_course", course_id, course_data, Nil)
      /\ UNCHANGED <<next_id, now, issued, req, globals>>

\* update_course (lines 24-31).
update_course(course_id, course_data) ==
  LET course == get_course_by_id(courses, course_id)
      i == Least(Matches(courses, course_id))
      updated == SetAttrs(course, course_data)
  IN  /\ IF course # Nil
         THEN /\ courses' = [courses EXCEPT ![i] = updated]
              /\ last' = Called("update_course", course_id, course_data,
                                updated)
         ELSE /\ courses' = courses
              /\ last' = Called("update_course", course_id, course_data, Nil)
      /\ UNCHANGED <<next_id, now, issued, req, globals>>

\* delete_course (lines 33-38).
delete_course(course_id) ==
  LET course == get_course_by_id(courses, course_id)
  IN  /\ IF course # Nil
         THEN /\ courses' = ListRemove(courses, course)
              /\ last' = Called("delete_course", course_id, Nil, TRUE)
         ELSE /\ courses' = courses
              /\ last' = Called("delete_course", course_id, Nil, FALSE)
      /\ UNCHANGED <<next_id, now, issued, req, globals>>

\* The course service: its calls one after the other, in any order.
NextCourse ==
  \/ \E course_data \in CourseCreates : add_course(course_data)
  \/ \E course_id \in CourseIds, course_data \in CourseUpdates :
       update_course(course_id, course_data)
  \/ \E course_id \in CourseIds : delete_course(course_id)

SpecCourse == Init /\ [][NextCourse]_vars

(***************************************************************************)
(* Properties of the token component (checked under SpecAuth).             *)
(***************************************************************************)
\* The slots that hold a finished direct call of verify_token.
Verified == {r \in Reqs : req[r].pc = "done" /\ req[r].inb # Nil
                          /\ req[r].inb.route = "verify"}

\* The slots that hold a finished login.
LoggedIn == {r \in Reqs : req[r].pc = "done" /\ req[r].inb # Nil
                          /\ req[r].inb.route = "login"}

TokenOf(r) == req[r].inb.auth.credentials

\* verify_token accepted the token of slot r for the user of login l.
AcceptedFor(r, l) ==
  /\ req[r].verdict.tag = "return"
  /\ req[r].verdict.value.sub = l.username
  /\ req[r].verdict.value.role = fake_users_db[l.username].role

\* The HTTPException failures of verify_token.
ExpiredToken == Raise(HTTPException(401, Text("Token has expired")))

InvalidToken ==
  {Raise(HTTPException(401, Text("Could not validate credentials"))),
   Raise(HTTPException(401, Text("Invalid authentication credentials")))}

\* C3 as stated: the token of a login is accepted, with the subject and the
\* role of its user, at every time strictly before issue time + 30 minutes.
C3_AcceptedUntilTTL ==
  \A r \in Verified : \A l \in issued :
    (TokenOf(r) = l.token /\ l.at <= req[r].at /\ req[r].at < l.at + TTLTicks)
      => AcceptedFor(r, l)

\* C3 (amended): the token of a login is accepted, with the subject and the
\* role of its user, at every time strictly before issue time + 30 minutes
\* rounded down to a whole second.
C3_AcceptedUntilExp ==
  \A r \in Verified : \A l \in issued :
    (TokenOf(r) = l.token /\ l.at <= req[r].at
       /\ req[r].at < ((l.at + TTLTicks) \div TicksPerSec) * TicksPerSec)
      => AcceptedFor(r, l)

\* Witness of C3: a login token verified and accepted late in its lifetime.
C3_Witness ==
  \E r \in Verified : \E l \in issued :
    /\ TokenOf(r) = l.token
    /\ req[r].at >= TTLTicks - Slack
    /\ AcceptedFor(r, l)

\* The token carries an expiry that lies in the past at time t.
ExpiryPassed(token, t) ==
  /\ WellFormed(token)
  /\ "exp" \in DOMAIN token.payload
  /\ token.payload.exp * TicksPerSec < t

SignatureValid(token) ==
  WellFormed(token) /\ token.sig = Sign(SECRET_KEY, token.payload)

\* C4 as stated: a token whose expiry is in the past fails with ExpiredToken,
\* whether or not its signature is valid.
C4_ExpiredWhateverSignature ==
  \A r \in Verified :
    ExpiryPassed(TokenOf(r), req[r].at) => req[r].verdict = ExpiredToken

\* C4 (amended): a token whose signature is valid under the gateway's secret
\* and whose expiry is in the past fails with ExpiredToken (401 "Token has
\* expired").
C4_ExpiredValidSignature ==
  \A r \in Verified :
    (SignatureValid(TokenOf(r)) /\ ExpiryPassed(TokenOf(r), req[r].at))
      => /\ req[r].verdict = ExpiredToken
         /\ ToResponse(req[r].verdict).status_code = 401

\* Witness of C4: the token of a login, verified after its expiry.
C4_Witness ==
  \E r \in Verified :
    /\ TokenOf(r) \in IssuedTokens
    /\ ExpiryPassed(TokenOf(r), req[r].at)
    /\ req[r].verdict = ExpiredToken

\* C5: a token that is tampered with, malformed or without the subject claim
\* fails with InvalidToken (HTTP 401), never with a success and never with
\* another error status.
C5_InvalidToken401 ==
  \A r \in Verified :
    (\/ ~WellFormed(TokenOf(r))
     \/ ~SignatureValid(TokenOf(r))
     \/ /\ "sub" \notin DOMAIN TokenOf(r).payload
        /\ TokenOf(r).payload.exp * TicksPerSec > req[r].at)
      => /\ req[r].verdict \in InvalidToken
         /\ ToResponse(req[r].verdict).status_code = 401

\* C6: login issues a token exactly when the username is in the user table
\* and the password equals the stored one; any other pair fails with 401 and
\* an {error, message} detail, and creates no token.
C6_LoginOnlyWithCredentials ==
  /\ \A r \in LoggedIn :
       LET d == req[r].inb.body
           match == /\ d.username \in DOMAIN fake_users_db
                    /\ fake_users_db[d.username].password = d.password
       IN  IF match
           THEN /\ req[r].out.tag = "return"
                /\ req[r].resp.status_code = 200
                /\ req[r].resp.body.token_type = "bearer"
                /\ req[r].resp.body.access_token \in IssuedTokens
           ELSE /\ req[r].out.tag = "raise"
                /\ req[r].resp.status_code = 401
                /\ DOMAIN req[r].resp.body.detail = {"error", "message"}
                /\ req[r].resp.body.detail.error = "Authentication Failed"
  /\ \A l \in issued :
       /\ l.username \in DOMAIN fake_users_db
       /\ SignatureValid(l.token)
       /\ l.token.payload.sub = l.username

\* Witness of C6: a login refused for a wrong password of a known user.
C6_Witness ==
  \E r \in LoggedIn :
    /\ req[r].inb.body.username = "admin"
    /\ req[r].inb.body.password # "admin123"
    /\ req[r].resp.status_code = 401

(***************************************************************************)
(* Properties of the forwarder (checked under SpecForward).                *)
(***************************************************************************)
\* The slots in which forward_request has ended.
Forwarded == {r \in Reqs : req[r].pc = "done" /\ req[r].call # Nil}

\* The slots in which forward_request has ended after its HTTP call ended
\* with a response.
Answered == {r \in Forwarded : req[r].ended # Nil /\ req[r].ended.tag = "return"}

\* The slots in which forward_request has ended after its HTTP call raised.
Broken == {r \in Forwarded : req[r].ended # Nil /\ req[r].ended.tag = "raise"}

\* forward_request raised HTTPException(code, detail) with detail.error = e.
Failure(r, code, e) ==
  /\ req[r].out.tag = "raise"
  /\ req[r].out.exc.cls = "HTTPException"
  /\ req[r].out.exc.status_code = code
  /\ req[r].out.exc.detail.error = e
  /\ req[r].resp.status_code = code

\* C1: for a registered service and a method outside GET, POST, PUT, DELETE,
\* forward_request ends with MethodNotAllowed, status 405 and the list of
\* allowed methods, and issues no HTTP call.
C1_MethodNotAllowed405 ==
  \A r \in Reqs :
    (/\ req[r].call # Nil
     /\ req[r].call.service \in DOMAIN SERVICES
     /\ req[r].call.method \notin {"GET", "POST", "PUT", "DELETE"})
      => /\ req[r].pc = "done"
         /\ req[r].http = <<>>
         /\ Failure(r, 405, "Method Not Allowed")
         /\ req[r].out.exc.detail.allowed_methods
              = <<"GET", "POST", "PUT", "DELETE">>

\* C7: when the backend answers with a status >= 400, the response of
\* forward_request has exactly that status, the backend's body as message
\* and the service name; it is not the gateway's own Service Not Found.
C7_UpstreamErrorPassthrough ==
  \A r \in Answered :
    req[r].ended.value.status_code >= 400
      => /\ req[r].out.tag = "return"
         /\ req[r].resp.status_code = req[r].ended.value.status_code
         /\ req[r].resp.body.status_code = req[r].ended.value.status_code
         /\ req[r].resp.body.message = req[r].ended.value.text
         /\ req[r].resp.body.service = req[r].call.service
         /\ req[r].resp.body.error = "Service Error"

\* Witness of C7: a backend 404 passed through as 404.
C7_Witness ==
  \E r \in Answered :
    /\ req[r].ended.value.status_code = 404
    /\ req[r].ended.value.text = "Not Found"
    /\ req[r].resp.status_code = 404
    /\ req[r].resp.body.message = "Not Found"

\* Two texts are the same JSON document.
SameJson(a, b) ==
  /\ json_loads(a).tag = "return"
  /\ json_loads(b).tag = "return"
  /\ json_loads(a).value = json_loads(b).value

\* C8 as stated: when the backend answers with a status < 400,
\* forward_request returns Success with that status and the backend's body
\* unchanged; an empty body yields null.
C8_SuccessVerbatim ==
  \A r \in Answered :
    req[r].ended.value.status_code < 400
      => /\ req[r].out.tag = "return"
         /\ req[r].resp.status_code = req[r].ended.value.status_code
         /\ IF req[r].ended.value.text = "" THEN req[r].resp.body = PyNone
            ELSE req[r].resp.body.json = req[r].ended.value.text

\* C8 (amended): when the backend answers with a status < 400 and a body
\* that is empty or JSON, forward_request returns Success with that status
\* and the same JSON document, re-serialised (null for an empty body); a
\* body that is neither ends in the 500 Internal failure.
C8_SuccessSameJson ==
  \A r \in Answered :
    req[r].ended.value.status_code < 400
      => LET text == req[r].ended.value.text IN
         IF text = "" \/ json_loads(text).tag = "return"
         THEN /\ req[r].out.tag = "return"
              /\ req[r].resp.status_code = req[r].ended.value.status_code
              /\ IF text = "" THEN req[r].resp.body = PyNone
                 ELSE SameJson(req[r].resp.body.json, text)
         ELSE Failure(r, 500, "Internal Server Error")

\* Witness of C8: a 2xx answer with a JSON body, and one with no body.
C8_Witness ==
  \E r \in Answered :
    /\ req[r].ended.value.status_code = 201
    /\ req[r].ended.value.text = "{\"id\": 1}"
    /\ req[r].resp.status_code = 201
    /\ req[r].resp.body = [json |-> "{\"id\":1}"]

\* C9: for a service name that is not in the registry, forward_request fails
\* with ServiceNotFound (404) listing exactly the configured service names,
\* and issues no HTTP call.
C9_ServiceNotFound ==
  \A r \in Reqs :
    (req[r].call # Nil /\ req[r].call.service \notin DOMAIN SERVICES)
      => /\ req[r].pc = "done"
         /\ req[r].http = <<>>
         /\ Failure(r, 404, "Service Not Found")
         /\ LET names == req[r].out.exc.detail.available_services
            IN  /\ {names[i] : i \in DOMAIN names} = {"student", "course"}
                /\ Len(names) = 2

\* Witness of C9: a call for a service that is not configured has ended.
C9_Witness ==
  \E r \in Forwarded :
    /\ req[r].call.service = "teacher"
    /\ req[r].call.method = "GET"
    /\ req[r].resp.status_code = 404

\* C10: for a supported method and a registered service, a call that times
\* out yields Timeout (504) with the service name, and a call that cannot
\* connect yields Unreachable (503) with the service name and its base URL.
C10_TimeoutAndUnreachable ==
  \A r \in Broken :
    LET cls == req[r].ended.exc.cls IN
    /\ cls \in {"ConnectTimeout", "ReadTimeout", "WriteTimeout", "PoolTimeout"}
         => /\ Failure(r, 504, "Gateway Timeout")
            /\ req[r].out.exc.detail.service = req[r].call.service
    /\ cls = "ConnectError"
         => /\ Failure(r, 503, "Service Unavailable")
            /\ req[r].out.exc.detail.service = req[r].call.service
            /\ req[r].out.exc.detail.service_url
                 \in {"http://localhost:8001", "http://localhost:8002"}
            /\ req[r].http[1].url
                 = req[r].out.exc.detail.service_url \o req[r].call.path

\* Witness of C10: a call to the course service that could not connect.
C10_Witness ==
  \E r \in Broken :
    /\ req[r].ended.exc.cls = "ConnectError"
    /\ req[r].call.service = "course"
    /\ req[r].resp.status_code = 503
    /\ req[r].resp.body.detail.service_url = "http://localhost:8002"

(***************************************************************************)
(* Properties of the gateway (checked under Spec).                         *)
(***************************************************************************)
\* The slots that hold a request for a protected route.
Protected == {r \in Reqs : req[r].inb # Nil /\ req[r].inb.route # "login"}

\* verify_token has returned the claims of the token of slot r's request.
VerifiedOwn(r) ==
  /\ HasBearer(req[r].inb.auth)
  /\ req[r].verdict # Nil
  /\ req[r].verdict.tag = "return"
  /\ WellFormed(req[r].inb.auth.credentials)
  /\ req[r].verdict.value = req[r].inb.auth.credentials.payload

\* forward_request has been entered for slot r's request.
ForwardInvoked(r) ==
  \/ req[r].pc \in {"handler", "awaiting"}
  \/ req[r].call # Nil
  \/ req[r].http # <<>>
  \/ req[r].out # Nil

\* C2: on a protected route forward_request, and so any HTTP call to a
\* backend, is invoked only once verify_token has succeeded for the same
\* request; when verification fails the response is that failure and the
\* forwarder is not invoked.
C2_VerifyBeforeForward ==
  \A r \in Protected :
    /\ ForwardInvoked(r) => VerifiedOwn(r)
    /\ ~VerifiedOwn(r)
         => /\ req[r].pc = "done"
            /\ ~ForwardInvoked(r)
            /\ IF req[r].verdict = Nil
               THEN req[r].resp.status_code \in HTTPBearerRejectStatus
               ELSE req[r].resp = ToResponse(req[r].verdict)
            /\ req[r].resp.status_code \in {401, 403, 500}

\* Witness of C2: one request waits for its backend after its token was
\* verified, while another was refused without a forwarding call.
C2_Witness ==
  \E r, q \in Protected :
    /\ req[r].pc = "awaiting"
    /\ VerifiedOwn(r)
    /\ Len(req[r].http) = 1
    /\ req[q].pc = "done"
    /\ req[q].verdict # Nil
    /\ req[q].verdict.tag = "raise"
    /\ req[q].http = <<>>

\* The slots whose response is one of the gateway's own failures: a failure
\* of login, of verify_token or of forward_request (upstream errors
\* included), with a status outside 2xx.
Failed ==
  {r \in Reqs :
     /\ req[r].resp # Nil
     /\ req[r].resp.status_code >= 400
     /\ \/ req[r].out # Nil
        \/ req[r].verdict # Nil /\ req[r].verdict.tag = "raise"}

\* The object that carries the error fields of a response: the body itself,
\* or the value of its "detail" key when the body is {"detail": ...}.
Envelope(resp) ==
  IF "detail" \in DOMAIN resp.body THEN resp.body.detail ELSE resp.body

\* C11: every response outside 2xx that the gateway originates is a
\* structured object with an `error' field and a `message' field (read here
\* in the body or in its "detail" object).
C11_ErrorEnvelope ==
  \A r \in Failed : {"error", "message"} \subseteq DOMAIN Envelope(req[r].resp)

\* The slots whose request for a protected route carried no bearer
\* credentials and has been answered.
Unauthenticated ==
  {r \in Reqs : /\ req[r].inb # Nil
                /\ req[r].inb.route \notin {"login", "verify"}
                /\ ~HasBearer(req[r].inb.auth)
                /\ req[r].pc = "done"}

\* C12: a request to a protected route without an Authorization header is
\* answered with status 401 and a structured body.
C12_NoHeader401 ==
  \A r \in Unauthenticated :
    /\ req[r].resp.status_code = 401
    /\ "detail" \in DOMAIN req[r].resp.body

(***************************************************************************)
(* Properties of one invocation of forward_request (SpecForward).          *)
(***************************************************************************)
\* The slots in which forward_request has been invoked.
Invoked == {r \in Reqs : req[r].call # Nil}

\* C13: an invocation of forward_request issues at most one HTTP call, on
\* every outcome: none when it fails before the call, exactly one while it
\* awaits and after the call has ended, however it ended.
C13_AtMostOneCall ==
  \A r \in Invoked :
    /\ Len(req[r].http) <= 1
    /\ req[r].pc = "awaiting" => Len(req[r].http) = 1
    /\ req[r].ended # Nil => Len(req[r].http) = 1 /\ req[r].pc = "done"
    /\ req[r].pc = "done" /\ req[r].ended = Nil => Len(req[r].http) = 0

\* An invocation whose single call failed to connect, one whose call timed
\* out and one that hit another exception have all returned to the caller.
C13_Witness ==
  \E r \in Invoked :
    /\ req[r].pc = "done"
    /\ req[r].ended # Nil
    /\ req[r].ended.tag = "raise"
    /\ req[r].ended.exc.cls \in {"ReadError", "ReadTimeout", "ConnectError"}
    /\ req[r].out.tag = "raise"
    /\ Len(req[r].http) = 1

(***************************************************************************)
(* Properties of the gateway under concurrent requests (Spec).             *)
(***************************************************************************)
\* The slots whose request is suspended at `await client.<method>(...)'.
Waiting == {r \in Reqs : req[r].pc = "awaiting"}

\* The next step of the request in slot q can be taken now, and taking it
\* leaves the request of slot r as it is.
CanProceed(q, r) ==
  CASE req[q].pc = "idle" ->
         \A rt \in Routes, auth \in GatewayAuths :
           ENABLED (/\ Receive(q, InboundFor(rt, 1, CHOOSE b \in Bodies : TRUE,
                                             auth))
                    /\ req'[r] = req[r])
    [] req[q].pc = "handler" ->
         ENABLED (Handler(q) /\ req'[r] = req[r])
    [] req[q].pc = "awaiting" ->
         \A ended \in GatewayEndings :
           ENABLED (BackendEnds(q, ended) /\ req'[r] = req[r])
    [] req[q].pc = "done" ->
         ENABLED (Deliver(q) /\ req'[r] = req[r])

\* C14: while the backend call of one request is pending, every other
\* request can be received and verified, forwarded, and answered; none of
\* these steps waits for the pending call.
C14_NoHeadOfLineBlocking ==
  \A r \in Waiting : \A q \in Reqs \ {r} : CanProceed(q, r)

\* A request that arrived later than a still waiting one has been verified,
\* forwarded and answered by its backend.
C14_Witness ==
  \E r \in Waiting : \E q \in Reqs \ {r} :
    /\ req[q].pc = "done"
    /\ req[q].at > req[r].at
    /\ req[q].verdict # Nil /\ req[q].verdict.tag = "return"
    /\ req[q].ended # Nil
    /\ req[q].out.tag = "return"

\* C15: the service registry, the signing secret and algorithm, the token
\* lifetime and the user table are never modified after start-up, whatever
\* requests are handled.
C15_ConfigurationImmutable ==
  /\ globals = StartupGlobals
  /\ globals.SERVICES = SERVICES
  /\ globals.SECRET_KEY = SECRET_KEY
  /\ globals.fake_users_db = fake_users_db

\* A login has succeeded, another has failed for a known user, and a
\* protected request has been forwarded and answered.
C15_Witness ==
  /\ issued # {}
  /\ \E r \in LoggedIn :
       /\ req[r].out.tag = "raise"
       /\ req[r].inb.body.username \in DOMAIN fake_users_db
  /\ \E q \in Reqs : req[q].pc = "done" /\ req[q].ended # Nil

(***************************************************************************)
(* Properties of the route handlers (SpecRoutes).                          *)
(***************************************************************************)
\* The decorator of each protected handler: the inbound method and the
\* inbound path /gateway/<resource>[/{id}] (lines 228-284).
Decorator(name) ==
  CASE name = "get_all_students" ->
         [method |-> "GET", resource |-> "students", hasId |-> FALSE]
    [] name = "get_student" ->
         [method |-> "GET", resource |-> "students", hasId |-> TRUE]
    [] name = "create_student" ->
         [method |-> "POST", resource |-> "students", hasId |-> FALSE]
    [] name = "update_student" ->
         [method |-> "PUT", resource |-> "students", hasId |-> TRUE]
    [] name = "delete_student" ->
         [method |-> "DELETE", resource |-> "students", hasId |-> TRUE]
    [] name = "get_all_courses" ->
         [method |-> "GET", resource |-> "courses", hasId |-> FALSE]
    [] name = "get_course" ->
         [method |-> "GET", resource |-> "courses", hasId |-> TRUE]
    [] name = "create_course" ->
         [method |-> "POST", resource |-> "courses", hasId |-> FALSE]
    [] name = "update_course" ->
         [method |-> "PUT", resource |-> "courses", hasId |-> TRUE]
    [] name = "delete_course" ->
         [method |-> "DELETE", resource |-> "courses", hasId |-> TRUE]

\* The forwarding call that the binding of the inbound request prescribes.
BoundCall(inb) ==
  LET d == Decorator(inb.route)
  IN  [service |-> IF d.resource = "students" THEN "student" ELSE "course",
       method |-> d.method,
       path |-> "/api/" \o d.resource
                  \o (IF d.hasId THEN "/" \o ToString(inb.id) ELSE ""),
       json |-> IF d.method \in {"POST", "PUT"} THEN inb.body ELSE Nil]

\* The slots whose handler has called forward_request.
Handled == {r \in Protected : req[r].call # Nil}

\* C16: the handler of a verified request calls forward_request with the
\* service, method and path of its own binding, the id substituted, the body
\* of a POST or PUT passed as it came and none for GET and DELETE; the HTTP
\* call goes to that service's base URL with that path and body.
C16_HandlerBinding ==
  \A r \in Handled :
    /\ VerifiedOwn(r)
    /\ req[r].call = BoundCall(req[r].inb)
    /\ Len(req[r].http) = 1
    /\ req[r].http[1].method = Decorator(req[r].inb.route).method
    /\ req[r].http[1].url
         = SERVICES[BoundCall(req[r].inb).service] \o BoundCall(req[r].inb).path
    /\ req[r].http[1].json = BoundCall(req[r].inb).json

\* An update of course 999 has been forwarded with its body, and the
\* backend has answered.
C16_Witness ==
  \E r \in Handled :
    /\ req[r].inb.route = "update_course"
    /\ req[r].inb.id = 999
    /\ req[r].inb.body \in RouteBodies \ Bodies
    /\ req[r].http[1].url = "http://localhost:8002/api/courses/999"
    /\ req[r].http[1].json = req[r].inb.body
    /\ req[r].pc = "done"

(***************************************************************************)
(* Properties of the course service (SpecCourse).                          *)
(***************************************************************************)
\* The ids of the courses of list cs.
IdsOf(cs) == {cs[i].id : i \in 1 .. Len(cs)}

\* C17: the stored courses have pairwise distinct ids, every stored id is
\* below next_id, no call decreases next_id, and add_course gives an id
\* that no stored course has and that delete_course never removed.
C17_IdsDistinctAndFresh ==
  /\ \A i, j \in 1 .. Len(courses) :
       i # j => courses[i].id # courses[j].id
  /\ \A i \in 1 .. Len(courses) : courses[i].id < next_id
  /\ next_id >= last.next_id
  /\ IdsOf(courses) \cap last.freed = {}
  /\ last.op = "add_course"
       => /\ last.result.id \notin IdsOf(last.courses) \cup last.freed
          /\ last.result = courses[Len(courses)]

\* A course was added after an added course and an initial course had been
\* deleted.
C17_Witness ==
  /\ last.op = "add_course"
  /\ \E a, b \in last.freed : a < InitialNextId /\ b >= InitialNextId
  /\ last.result.id = InitialNextId + 1
  /\ Len(courses) < last.result.id

\* The last call named an id that the list held.
LastIdStored == Matches(last.courses, last.id) # {}

\* C18: update_course and delete_course with an id that is not stored
\* return None and False and change neither the list nor next_id;
\* update_course with a stored id writes exactly the fields that were set,
\* keeps the id and leaves every other course as it was.
C18_UpdateDeleteLocal ==
  /\ last.op = "update_course" /\ ~LastIdStored
       => last.result = Nil /\ courses = last.courses
          /\ next_id = last.next_id
  /\ last.op = "delete_course" /\ ~LastIdStored
       => last.result = FALSE /\ courses = last.courses
          /\ next_id = last.next_id
  /\ last.op = "update_course" /\ LastIdStored
       => /\ Len(courses) = Len(last.courses)
          /\ next_id = last.next_id
          /\ \A j \in 1 .. Len(courses) :
               IF last.courses[j].id # last.id
               THEN courses[j] = last.courses[j]
               ELSE /\ courses[j].id = last.id
                    /\ last.result = courses[j]
                    /\ \A k \in CourseFields :
                         courses[j][k] = IF k \in last.data.fields_set
                                         THEN last.data[k]
                                         ELSE last.courses[j][k]

\* An update that set two of the four fields has changed a stored course,
\* in a list that holds other courses and has lost one.
C18_Witness ==
  /\ last.op = "update_course"
  /\ LastIdStored
  /\ last.data.fields_set = {"credits", "instructor"}
  /\ courses # last.courses
  /\ Len(courses) > 1
  /\ last.freed # {}

(***************************************************************************)
(* The role claim (Spec).                                                  *)
(***************************************************************************)
\* The token of slot r's request verified when the request arrived: its
\* signature is valid, it has not expired and it names a subject.
TokenVerifies(r) ==
  /\ HasBearer(req[r].inb.auth)
  /\ verify_token(req[r].inb.auth.credentials, req[r].at).tag = "return"

RoleOf(r) == req[r].inb.auth.credentials.payload.role

\* The requests of slots r and q differ at most in their tokens.
SameRequest(r, q) ==
  /\ req[r].inb.route = req[q].inb.route
  /\ req[r].inb.id = req[q].inb.id
  /\ req[r].inb.body = req[q].inb.body

\* C19: a protected request is forwarded exactly if its token verifies,
\* whatever role the token carries; two requests with verifying tokens that
\* differ only in the role make the same forwarding call and, for the same
\* backend answer, get the same response.
C19_RoleIndependent ==
  /\ \A r \in Protected :
       req[r].pc = "done" => (TokenVerifies(r) <=> req[r].call # Nil)
  /\ \A r, q \in Protected :
       TokenVerifies(r) /\ TokenVerifies(q) /\ SameRequest(r, q)
         => /\ req[r].call # Nil /\ req[q].call # Nil
                 => req[r].call = req[q].call /\ req[r].http = req[q].http
            /\ req[r].ended # Nil /\ req[r].ended = req[q].ended
                 => req[r].resp = req[q].resp

\* An admin's and a user's request to the same route have both been
\* forwarded and their backend calls have ended the same way.
C19_Witness ==
  \E r, q \in Protected :
    /\ TokenVerifies(r) /\ TokenVerifies(q)
    /\ SameRequest(r, q)
    /\ RoleOf(r) = "admin" /\ RoleOf(q) = "user"
    /\ req[r].ended # Nil /\ req[r].ended = req[q].ended
    /\ req[r].resp = req[q].resp
    /\ req[r].call = req[q].call
====
